---------------------------- MODULE Spec2Model ----------------------------
(***************************************************************************)
(* A model of the WAF reference-data index of                              *)
(* src/src/custom_server/services/waf_hierarchy_service.py: the four-file  *)
(* load (_load_waf_data), the read operations of WAFHierarchyService, and  *)
(* the lazy global accessor get_waf_hierarchy_service().                   *)
(*                                                                         *)
(* Strings are sequences of code points, so that str.strip(), str.upper(), *)
(* str.lower(), the `in` substring test and the ordering used by sorted()  *)
(* are computed, not assumed.  A Python dict is a sequence of [k, v] pairs *)
(* in insertion order with unique keys.  Optional[T] is a sequence of      *)
(* length at most one: <<>> is None, <<x>> is the value x.                 *)
(***************************************************************************)
EXTENDS Integers, Sequences, FiniteSets, TLC

(***************************************************************************)
(* Bounds of the model.                                                    *)
(***************************************************************************)
\* Total number of data rows over the four CSV files.
MaxRows == 2
\* Number of concurrent callers of get_waf_hierarchy_service().
NumCallers == 2
\* Number of calls each caller makes.
MaxCalls == 2

(***************************************************************************)
(* Python str operations.                                                  *)
(***************************************************************************)
\* str.upper() on one code point: a..z (97..122) map to A..Z (65..90).
UpperChar(c) == IF c >= 97 /\ c <= 122 THEN c - 32 ELSE c

\* str.lower() on one code point: A..Z (65..90) map to a..z (97..122).
LowerChar(c) == IF c >= 65 /\ c <= 90 THEN c + 32 ELSE c

\* str.upper()
Upper(s) == [i \in 1..Len(s) |-> UpperChar(s[i])]

\* str.lower()
Lower(s) == [i \in 1..Len(s) |-> LowerChar(s[i])]

\* Whitespace removed by str.strip(): space, \t, \n, \v, \f, \r.
IsSpace(c) == c = 32 \/ (c >= 9 /\ c <= 13)

RECURSIVE LStrip(_)
LStrip(s) == IF s # <<>> /\ IsSpace(Head(s)) THEN LStrip(Tail(s)) ELSE s

RECURSIVE RStrip(_)
RStrip(s) ==
    IF s # <<>> /\ IsSpace(s[Len(s)]) THEN RStrip(SubSeq(s, 1, Len(s) - 1)) ELSE s

\* str.strip()
Strip(s) == RStrip(LStrip(s))

\* `sub in s` for two str values.
Contains(sub, s) ==
    \E i \in 0..(Len(s) - Len(sub)) : SubSeq(s, i + 1, i + Len(sub)) = sub

\* a < b for two str values: lexicographic by code point.
RECURSIVE StrLess(_, _)
StrLess(a, b) ==
    IF b = <<>> THEN FALSE
    ELSE IF a = <<>> THEN TRUE
    ELSE IF Head(a) # Head(b) THEN Head(a) < Head(b)
    ELSE StrLess(Tail(a), Tail(b))

(***************************************************************************)
(* Python dict (insertion ordered) and sorted().                           *)
(***************************************************************************)
DictHas(d, key) == \E i \in 1..Len(d) : d[i].k = key

DictIndex(d, key) == CHOOSE i \in 1..Len(d) : d[i].k = key

\* d.get(key): Optional
DictGet(d, key) == IF DictHas(d, key) THEN <<d[DictIndex(d, key)].v>> ELSE <<>>

\* d.get(key, default)
DictGetOr(d, key, default) ==
    IF DictHas(d, key) THEN d[DictIndex(d, key)].v ELSE default

\* d[key] = value: an existing key keeps its position.
DictSet(d, key, value) ==
    IF DictHas(d, key)
    THEN [i \in 1..Len(d) |-> IF d[i].k = key THEN [k |-> key, v |-> value] ELSE d[i]]
    ELSE Append(d, [k |-> key, v |-> value])

\* list(d.values())
DictValues(d) == [i \in 1..Len(d) |-> d[i].v]

\* list(d.keys())
DictKeys(d) == [i \in 1..Len(d) |-> d[i].k]

\* Insert pair x into the sorted sequence s behind every pair whose key is
\* not greater: the step of a stable sort.
RECURSIVE InsertByKey(_, _)
InsertByKey(s, x) ==
    IF s = <<>> THEN <<x>>
    ELSE IF StrLess(x.k, Head(s).k) THEN <<x>> \o s
    ELSE <<Head(s)>> \o InsertByKey(Tail(s), x)

RECURSIVE SortPairs(_)
SortPairs(s) ==
    IF s = <<>> THEN <<>>
    ELSE InsertByKey(SortPairs(SubSeq(s, 1, Len(s) - 1)), s[Len(s)])

\* The list returned as the dict holds it, in insertion order.
SortedNoSort(items, keys) == items

\* sorted(items, key=...) where keys[i] is the key of items[i].

Sorted(items, keys) ==
    LET pairs == [i \in 1..Len(items) |-> [k |-> keys[i], v |-> items[i]]]
        done == SortPairs(pairs)
    IN  [i \in 1..Len(items) |-> done[i].v]

(***************************************************************************)
(* The entity dataclasses.  Dataclass equality is field-wise, which is     *)
(* record equality.                                                        *)
(***************************************************************************)
WAFPillar(pillar_id, pillar_name, pillar_description) ==
    [pillar_id |-> pillar_id, pillar_name |-> pillar_name,
     pillar_description |-> pillar_description]

WAFPrinciple(principle_id, pillar_id, pillar_name, principle_description) ==
    [principle_id |-> principle_id, pillar_id |-> pillar_id,
     pillar_name |-> pillar_name,
     principle_description |-> principle_description]

WAFMeasure(pillar_id, principle_id, measure_id, best_practice, databricks_capabilities, details) ==
    [pillar_id |-> pillar_id, principle_id |-> principle_id,
     measure_id |-> measure_id, best_practice |-> best_practice,
     databricks_capabilities |-> databricks_capabilities, details |-> details]

WAFAnalysis(pillar_id, principle_id, measure_id, analysis_id, sql_code, sql_description) ==
    [pillar_id |-> pillar_id, principle_id |-> principle_id,
     measure_id |-> measure_id, analysis_id |-> analysis_id,
     sql_code |-> sql_code, sql_description |-> sql_description]

\* WAFHierarchyService.__init__ before _load_waf_data: seven empty dicts.
EmptyService ==
    [pillars |-> <<>>, principles |-> <<>>, measures |-> <<>>,
     analyses |-> <<>>, measures_by_principle |-> <<>>,
     measures_by_pillar |-> <<>>, principles_by_pillar |-> <<>>]

(***************************************************************************)
(* _load_waf_data.  Each loop over the rows of a csv.DictReader is a fold  *)
(* over the file's rows; `self` is the service record being filled.        *)
(***************************************************************************)
\* The pillar loop without the pillar_ids_seen test: a later row replaces
\* an earlier one.
RECURSIVE LoadPillarRowsLastWins(_, _, _)
LoadPillarRowsLastWins(rows, self, pillar_ids_seen) ==
    IF rows = <<>> THEN self
    ELSE LET row == Head(rows)
             pillar_id == Strip(row.pillar_id)
         IN  IF pillar_id # <<>>
             THEN LoadPillarRowsLastWins(Tail(rows),
                      [self EXCEPT !.pillars =
                          DictSet(@, pillar_id,
                                  WAFPillar(pillar_id, Strip(row.pillar_name),
                                            Strip(row.pillar_description)))],
                      pillar_ids_seen)
             ELSE LoadPillarRowsLastWins(Tail(rows), self, pillar_ids_seen)

\* Lines 84-94: the pillar loop.  A pillar_id is kept as stripped, and only
\* the first row carrying it is stored.
RECURSIVE LoadPillarRows(_, _, _)
LoadPillarRows(rows, self, pillar_ids_seen) ==
    IF rows = <<>> THEN self
    ELSE LET row == Head(rows)
             pillar_id == Strip(row.pillar_id)
         IN  IF pillar_id # <<>> /\ pillar_id \notin pillar_ids_seen
             THEN LET pillar == WAFPillar(pillar_id, Strip(row.pillar_name),
                                          Strip(row.pillar_description))
                  IN  LoadPillarRows(Tail(rows),
                          [self EXCEPT !.pillars = DictSet(@, pillar_id, pillar)],
                          pillar_ids_seen \cup {pillar_id})
             ELSE LoadPillarRows(Tail(rows), self, pillar_ids_seen)

\* file.readlines() of the principles file: an optional first line ',,,',
\* the header line, then the data lines.
ReadLines(file) ==
    (IF file.placeholder THEN <<[kind |-> "placeholder"]>> ELSE <<>>)
        \o <<[kind |-> "header"]>>
        \o [i \in 1..Len(file.rows) |-> [kind |-> "row", cells |-> file.rows[i]]]

\* Lines 100-102: a first line ',,,' is dropped before the header is read.
SkipPlaceholder(lines) ==
    IF lines # <<>> /\ lines[1].kind = "placeholder" THEN Tail(lines) ELSE lines

\* Lines 106-107: csv.DictReader names the columns after the first line.
\* Under the column names of a ',,,' line no row has a principle_id, which
\* line 111 reads as a blank one.
DictReader(lines) ==
    IF lines = <<>> THEN <<>>
    ELSE [i \in 1..(Len(lines) - 1) |->
            IF lines[1].kind = "header" /\ lines[i + 1].kind = "row"
            THEN lines[i + 1].cells
            ELSE [principle_id |-> <<>>, pillar_id |-> <<>>,
                  pillar_name |-> <<>>, principle_description |-> <<>>]]

\* Lines 109-126: the principle loop.  Every row with a principle_id is
\* stored under it (a later row replaces an earlier one) and appended to
\* the list of its pillar_id.
RECURSIVE LoadPrincipleRows(_, _)
LoadPrincipleRows(rows, self) ==
    IF rows = <<>> THEN self
    ELSE LET row == Head(rows)
         IN  IF Strip(row.principle_id) = <<>>
             THEN LoadPrincipleRows(Tail(rows), self)
             ELSE LET principle_id == Strip(row.principle_id)
                      principle == WAFPrinciple(principle_id, Strip(row.pillar_id),
                                        Strip(row.pillar_name),
                                        Strip(row.principle_description))
                      pillar_id == principle.pillar_id
                      by_pillar == DictGetOr(self.principles_by_pillar, pillar_id, <<>>)
                  IN  LoadPrincipleRows(Tail(rows),
                          [self EXCEPT
                              !.principles = DictSet(@, principle_id, principle),
                              !.principles_by_pillar =
                                  DictSet(@, pillar_id, Append(by_pillar, principle))])

\* Lines 132-156: the measure loop.
RECURSIVE LoadMeasureRows(_, _)
LoadMeasureRows(rows, self) ==
    IF rows = <<>> THEN self
    ELSE LET row == Head(rows)
         IN  IF Strip(row.measure_id) = <<>>
             THEN LoadMeasureRows(Tail(rows), self)
             ELSE LET measure_id == Strip(row.measure_id)
                      pillar_id == Strip(row.pillar_id)
                      principle_id == Strip(row.principle_id)
                      measure == WAFMeasure(pillar_id, principle_id, measure_id,
                                     Strip(row.best_practice),
                                     Strip(row.measure_databricks_capabilities),
                                     Strip(row.measure_details))
                      by_principle == DictGetOr(self.measures_by_principle, principle_id, <<>>)
                      by_pillar == DictGetOr(self.measures_by_pillar, pillar_id, <<>>)
                  IN  LoadMeasureRows(Tail(rows),
                          [self EXCEPT
                              !.measures = DictSet(@, measure_id, measure),
                              !.measures_by_principle =
                                  DictSet(@, principle_id, Append(by_principle, measure)),
                              !.measures_by_pillar =
                                  DictSet(@, pillar_id, Append(by_pillar, measure))])

\* Lines 162-183: the analysis loop.  Ids are stripped and uppercased; a
\* row without analysis id or without SQL is skipped; analyses are grouped
\* by measure_id.
RECURSIVE LoadAnalysisRows(_, _)
LoadAnalysisRows(rows, self) ==
    IF rows = <<>> THEN self
    ELSE LET row == Head(rows)
             analysis_id == Upper(Strip(row.alaysis_id))
             sql_code == Strip(row.measure_sql_code)
         IN  IF analysis_id = <<>> \/ sql_code = <<>>
             THEN LoadAnalysisRows(Tail(rows), self)
             ELSE LET measure_id == Upper(Strip(row.measure_id))
                      analysis == WAFAnalysis(Upper(Strip(row.pillar_id)),
                                      Upper(Strip(row.principle_id)), measure_id,
                                      analysis_id, sql_code,
                                      Strip(row.measure_sql_description))
                      group == DictGetOr(self.analyses, measure_id, <<>>)
                  IN  LoadAnalysisRows(Tail(rows),
                          [self EXCEPT
                              !.analyses = DictSet(@, measure_id, Append(group, analysis))])

\* Lines 63-75 and 185-186: a file found at neither path raises
\* FileNotFoundError, which _load_waf_data re-raises as RuntimeError.
AllFilesExist(fs) ==
    /\ fs.pillars.exists
    /\ fs.principles.exists
    /\ fs.measures.exists
    /\ fs.analysis.exists

\* Lines 77-186: the four loops in order, on a fresh service.
LoadWafData(fs) ==
    LET s1 == LoadPillarRows(fs.pillars.rows, EmptyService, {})
        s2 == LoadPrincipleRows(DictReader(SkipPlaceholder(ReadLines(fs.principles))), s1)
        s3 == LoadMeasureRows(fs.measures.rows, s2)
    IN  LoadAnalysisRows(fs.analysis.rows, s3)

(***************************************************************************)
(* The read operations of WAFHierarchyService.                             *)
(***************************************************************************)
\* Lines 189-191
get_all_pillars(self) ==
    LET items == DictValues(self.pillars)
    IN  Sorted(items, [i \in 1..Len(items) |-> items[i].pillar_id])

\* Lines 193-195
get_pillar(self, pillar_id) == DictGet(self.pillars, Upper(pillar_id))

\* Lines 198-200
get_all_principles(self) ==
    LET items == DictValues(self.principles)
    IN  Sorted(items, [i \in 1..Len(items) |-> items[i].principle_id])

\* Lines 202-204
get_principle(self, principle_id) == DictGet(self.principles, Upper(principle_id))

\* None, what dict.get returns for a missing key when no default is given.
PyNone == [none |-> TRUE]

\* get_principles_by_pillar with the default [] of line 209 left out.
get_principles_by_pillar_no_default(self, pillar_id) ==
    DictGetOr(self.principles_by_pillar, Upper(pillar_id), PyNone)

\* Lines 206-209
get_principles_by_pillar(self, pillar_id) ==
    DictGetOr(self.principles_by_pillar, Upper(pillar_id), <<>>)

\* Lines 212-214
get_all_measures(self) ==
    LET items == DictValues(self.measures)
    IN  Sorted(items, [i \in 1..Len(items) |-> items[i].measure_id])

\* Lines 216-218
get_measure(self, measure_id) == DictGet(self.measures, Upper(measure_id))

\* Lines 220-223
get_measures_by_pillar(self, pillar_id) ==
    DictGetOr(self.measures_by_pillar, Upper(pillar_id), <<>>)

\* Lines 225-228
get_measures_by_principle(self, principle_id) ==
    DictGetOr(self.measures_by_principle, Upper(principle_id), <<>>)

\* Lines 231-233
get_analyses_for_measure(self, measure_id) ==
    DictGetOr(self.analyses, Upper(measure_id), <<>>)

\* The analyses in the order the nested loops of lines 238-239 visit them.
RECURSIVE Concat(_)
Concat(lists) == IF lists = <<>> THEN <<>> ELSE Head(lists) \o Concat(Tail(lists))

\* Lines 235-242: the first analysis, in visiting order, with the id.
get_analysis(self, analysis_id) ==
    LET wanted == Upper(analysis_id)
        all == Concat(DictValues(self.analyses))
        hits == SelectSeq(all, LAMBDA a : a.analysis_id = wanted)
    IN  IF hits = <<>> THEN <<>> ELSE <<hits[1]>>

\* Lines 251-254: the test of one measure against the lowercased term.
MeasureMatches(measure, search_term) ==
    \/ Contains(search_term, Lower(measure.measure_id))
    \/ Contains(search_term, Lower(measure.best_practice))
    \/ Contains(search_term, Lower(measure.databricks_capabilities))
    \/ Contains(search_term, Lower(measure.details))

\* search_measures without line 247: the term is compared as given.
search_measures_as_given(self, search_term) ==
    LET results == SelectSeq(DictValues(self.measures),
                             LAMBDA m : MeasureMatches(m, search_term))
    IN  Sorted(results, [i \in 1..Len(results) |-> results[i].measure_id])

\* Lines 245-257
search_measures(self, search_term) ==
    LET term == Lower(search_term)
        results == SelectSeq(DictValues(self.measures),
                             LAMBDA m : MeasureMatches(m, term))
    IN  Sorted(results, [i \in 1..Len(results) |-> results[i].measure_id])

\* Lines 265-266: the condition of the search_principles loop.
PrincipleMatches(principle, search_term) ==
    \/ Contains(search_term, Lower(principle.principle_id))
    \/ Contains(search_term, Lower(principle.principle_description))

\* search_principles with an early `if not search_term: return []`.
search_principles_blank_matches_none(self, search_term) ==
    LET term == Lower(search_term)
        results == SelectSeq(DictValues(self.principles),
                             LAMBDA p : term # <<>> /\ PrincipleMatches(p, term))
    IN  Sorted(results, [i \in 1..Len(results) |-> results[i].principle_id])

\* search_principles, lines 259-268.
search_principles(self, search_term) ==
    LET term == Lower(search_term)
        results == SelectSeq(DictValues(self.principles),
                             LAMBDA p : PrincipleMatches(p, term))
    IN  Sorted(results, [i \in 1..Len(results) |-> results[i].principle_id])

\* Lines 285-289: the measure of one analyses key, when there is one.
RECURSIVE CollectMeasures(_, _)
CollectMeasures(self, items) ==
    IF items = <<>> THEN <<>>
    ELSE LET measure == get_measure(self, Head(items).k)
             rest == CollectMeasures(self, Tail(items))
         IN  IF Head(items).v # <<>> /\ measure # <<>>
             THEN <<measure[1]>> \o rest
             ELSE rest

\* get_measures_with_analyses looping over self._measures instead of
\* self._analyses: every measure is returned.
get_measures_with_analyses_all(self) ==
    LET found == DictValues(self.measures)
    IN  Sorted(found, [i \in 1..Len(found) |-> found[i].measure_id])

\* Lines 282-290
get_measures_with_analyses(self) ==
    LET found == CollectMeasures(self, self.analyses)
    IN  Sorted(found, [i \in 1..Len(found) |-> found[i].measure_id])

(***************************************************************************)
(* The accessor get_waf_hierarchy_service(), lines 293-302.                *)
(***************************************************************************)
\* The test of line 300 left out: every call constructs.
IsUnsetAlways(inst) == TRUE

\* Line 300: `_waf_hierarchy_service is None`; 0 stands for None.
IsUnset(inst) == inst = 0

(***************************************************************************)
(* The rows the CSV files are drawn from.  Cells are written as code       *)
(* points: 32 is a space, 65 66 are A B, 97 98 99 are a b c, 88 89 90 are  *)
(* X Y Z, 120 121 122 are x y z, 113 114 are q r.                          *)
(***************************************************************************)
PillarRow(id, name, desc) ==
    [pillar_id |-> id, pillar_name |-> name, pillar_description |-> desc]

\* " A " and "A" are the same id once stripped; "b" is a lowercase id, in
\* a row whose pillar_name " " is blank; the last row has no id.
PillarRows ==
    { PillarRow(<<32, 65, 32>>, <<120>>, <<>>),
      PillarRow(<<65>>, <<121>>, <<32, 97>>),
      PillarRow(<<98>>, <<32>>, <<>>),
      PillarRow(<<32>>, <<120>>, <<>>) }

PrincipleRow(id, pillar, name, desc) ==
    [principle_id |-> id, pillar_id |-> pillar, pillar_name |-> name,
     principle_description |-> desc]

PrincipleRows ==
    { PrincipleRow(<<32, 65>>, <<65>>, <<120>>, <<97, 66>>),
      PrincipleRow(<<65>>, <<98>>, <<120>>, <<99>>),
      PrincipleRow(<<98>>, <<98>>, <<120>>, <<65, 98>>),
      PrincipleRow(<<>>, <<65>>, <<120>>, <<>>) }

MeasureRow(id, pillar, principle, bp, caps, details) ==
    [measure_id |-> id, pillar_id |-> pillar, principle_id |-> principle,
     best_practice |-> bp, measure_databricks_capabilities |-> caps,
     measure_details |-> details]

MeasureRows ==
    { MeasureRow(<<65>>, <<65>>, <<65>>, <<97, 66>>, <<>>, <<>>),
      MeasureRow(<<65, 32>>, <<98>>, <<98>>, <<>>, <<99>>, <<>>),
      MeasureRow(<<98>>, <<65>>, <<65>>, <<>>, <<>>, <<65, 98>>),
      MeasureRow(<<66>>, <<65>>, <<65>>, <<>>, <<98>>, <<32>>),
      MeasureRow(<<>>, <<65>>, <<65>>, <<>>, <<>>, <<>>) }

AnalysisRow(id, sql, measure, pillar, principle, desc) ==
    [alaysis_id |-> id, measure_sql_code |-> sql, measure_id |-> measure,
     pillar_id |-> pillar, principle_id |-> principle,
     measure_sql_description |-> desc]

\* " x" and "X" are the same analysis id once stripped and uppercased; the
\* row with SQL " " and the row without id are skipped.
AnalysisRows ==
    { AnalysisRow(<<32, 120>>, <<113>>, <<65>>, <<97>>, <<97>>, <<>>),
      AnalysisRow(<<88>>, <<114>>, <<98>>, <<65>>, <<65>>, <<>>),
      AnalysisRow(<<121>>, <<113>>, <<97>>, <<65>>, <<65>>, <<>>),
      AnalysisRow(<<122>>, <<32>>, <<65>>, <<65>>, <<65>>, <<>>),
      AnalysisRow(<<>>, <<113>>, <<65>>, <<65>>, <<65>>, <<>>) }

\* The ids the callers ask for, and the search terms.
QueryIds == { <<97>>, <<66>>, <<120>> }

SearchTerms == { <<>>, <<65, 66>>, <<67>> }

\* The rows of a file that is missing.
File(exists, placeholder, rows) ==
    [exists |-> exists, placeholder |-> placeholder, rows |-> rows]

Callers == 1..NumCallers

(***************************************************************************)
(* State.                                                                  *)
(***************************************************************************)
VARIABLES
    files,      \* the four CSV files under resources/
    pc,         \* "start", "loaded" or "failed": the constructor's outcome
    svc,        \* Optional: the constructed WAFHierarchyService
    last,       \* the last read operation: its name, argument and result
    instance,   \* the global _waf_hierarchy_service: 0 (None) or an object
    objects,    \* number of WAFHierarchyService objects constructed
    loads,      \* number of runs of _load_waf_data
    raised,     \* number of calls of the accessor that raised
    cpc,        \* per caller: its place in get_waf_hierarchy_service
    created,    \* per caller: the object its constructor call returned
    calls,      \* per caller: the calls it has begun
    returned,   \* the objects the accessor has returned
    finished,   \* number of calls of the accessor that returned
    overlapped, \* history: a call began while another was in progress
    env,        \* the process environment: is DATABRICKS_WAREHOUSE_ID set
    appPc,      \* app.py: "import" while the module body runs, then "serving"
    waf_service, \* app.py's global waf_service: Optional
    sql_service, \* app.py's global sql_service / _sql_service: Optional
    tool,       \* the last tool call: its name, argument and outcome
    executed,   \* the query texts handed to cursor.execute, in order
    formatted,  \* number of calls of a formatter function
    sqlcall,    \* the last direct call on the SQL service and its outcome
    connections, \* number of warehouse connections that are open
    cursors,    \* number of cursors that are open
    repo,       \* the global _query_repository: Optional, its queries dict
    view,       \* Optional: a mapping list_queries returned, held by a caller
    catcall,    \* the last call on the query repository and its result
    puts,       \* history: the text of the most recent add_query per key
    catsteps    \* number of add_query calls and of changes to a held mapping

indexVars == <<files, pc, svc, last>>

accessorVars ==
    <<instance, objects, loads, raised, cpc, created, calls, returned, finished,
      overlapped>>

catalogVars == <<repo, view, catcall, puts, catsteps>>

appVars ==
    <<env, appPc, waf_service, sql_service, tool, executed, formatted, sqlcall,
      connections, cursors, repo, view, catcall, puts, catsteps>>

vars == <<files, pc, svc, last, instance, objects, loads, raised, cpc, created,
          calls, returned, finished, overlapped, env, appPc, waf_service,
          sql_service, tool, executed, formatted, sqlcall, connections,
          cursors, repo, view, catcall, puts, catsteps>>

NoCall == [op |-> "none", arg |-> <<>>, ret |-> <<>>]

AccessorIdle ==
    /\ instance = 0
    /\ objects = 0
    /\ loads = 0
    /\ raised = 0
    /\ cpc = [c \in Callers |-> "idle"]
    /\ created = [c \in Callers |-> 0]
    /\ calls = [c \in Callers |-> 0]
    /\ returned = {}
    /\ finished = 0
    /\ overlapped = FALSE

NoTool ==
    [op |-> "none", arg |-> <<>>, exc |-> "", ret |-> <<>>, queries |-> <<>>,
     outcome |-> [kind |-> "none", rows |-> <<>>]]

NoSqlCall ==
    [op |-> "none", args |-> <<>>, exc |-> "", ret |-> <<>>, formatted |-> 0,
     outcome |-> [kind |-> "none", rows |-> <<>>]]

NoCatCall == [op |-> "none", key |-> "", ret |-> <<>>]

CatalogIdle ==
    /\ repo = <<>>
    /\ view = <<>>
    /\ catcall = NoCatCall
    /\ puts = <<>>
    /\ catsteps = 0

AppIdle ==
    /\ connections = 0
    /\ cursors = 0
    /\ CatalogIdle
    /\ env = [warehouse_id |-> TRUE]
    /\ appPc = "import"
    /\ waf_service = <<>>
    /\ sql_service = <<>>
    /\ tool = NoTool
    /\ executed = <<>>
    /\ formatted = 0
    /\ sqlcall = NoSqlCall

\* Every choice of the four files with at most MaxRows data rows in all.  A
\* missing file has no rows.
DrawFiles ==
    \E e1, e2, e3, e4, ph \in BOOLEAN :
         \E n1 \in 0..(IF e1 THEN MaxRows ELSE 0) :
           \E n2 \in 0..(IF e2 THEN MaxRows - n1 ELSE 0) :
             \E n3 \in 0..(IF e3 THEN MaxRows - n1 - n2 ELSE 0) :
               \E n4 \in 0..(IF e4 THEN MaxRows - n1 - n2 - n3 ELSE 0) :
                 \E r1 \in [1..n1 -> PillarRows], r2 \in [1..n2 -> PrincipleRows],
                    r3 \in [1..n3 -> MeasureRows], r4 \in [1..n4 -> AnalysisRows] :
                   /\ (ph => e2)
                   /\ files = [pillars |-> File(e1, FALSE, r1),
                               principles |-> File(e2, ph, r2),
                               measures |-> File(e3, FALSE, r3),
                               analysis |-> File(e4, FALSE, r4)]

Init ==
    /\ DrawFiles
    /\ pc = "start"
    /\ svc = <<>>
    /\ last = NoCall
    /\ AccessorIdle
    /\ AppIdle

(***************************************************************************)
(* WAFHierarchyService(): __init__ with _load_waf_data, lines 52-61 and    *)
(* 77-186.  The object exists only when the load did not raise.            *)
(***************************************************************************)
Construct ==
    /\ pc = "start"
    /\ IF AllFilesExist(files)
       THEN /\ svc' = <<LoadWafData(files)>>
            /\ pc' = "loaded"
       ELSE /\ svc' = <<>>
            /\ pc' = "failed"
    /\ UNCHANGED <<files, last>>
    /\ UNCHANGED accessorVars
    /\ UNCHANGED appVars

\* A read operation on the loaded service.
Read(op, arg, ret) ==
    /\ pc = "loaded"
    /\ last' = [op |-> op, arg |-> arg, ret |-> ret]
    /\ UNCHANGED <<files, pc, svc>>
    /\ UNCHANGED accessorVars
    /\ UNCHANGED appVars

GetAllPillars == Read("get_all_pillars", <<>>, get_all_pillars(svc[1]))

GetPillar == \E id \in QueryIds : Read("get_pillar", id, get_pillar(svc[1], id))

GetAllPrinciples == Read("get_all_principles", <<>>, get_all_principles(svc[1]))

GetPrinciple ==
    \E id \in QueryIds : Read("get_principle", id, get_principle(svc[1], id))

GetPrinciplesByPillar ==
    \E id \in QueryIds :
        Read("get_principles_by_pillar", id, get_principles_by_pillar(svc[1], id))

GetAllMeasures == Read("get_all_measures", <<>>, get_all_measures(svc[1]))

GetMeasure == \E id \in QueryIds : Read("get_measure", id, get_measure(svc[1], id))

GetMeasuresByPillar ==
    \E id \in QueryIds :
        Read("get_measures_by_pillar", id, get_measures_by_pillar(svc[1], id))

GetMeasuresByPrinciple ==
    \E id \in QueryIds :
        Read("get_measures_by_principle", id, get_measures_by_principle(svc[1], id))

GetAnalysesForMeasure ==
    \E id \in QueryIds :
        Read("get_analyses_for_measure", id, get_analyses_for_measure(svc[1], id))

GetAnalysis ==
    \E id \in QueryIds : Read("get_analysis", id, get_analysis(svc[1], id))

SearchMeasures ==
    \E term \in SearchTerms :
        Read("search_measures", term, search_measures(svc[1], term))

SearchPrinciples ==
    \E term \in SearchTerms :
        Read("search_principles", term, search_principles(svc[1], term))

GetMeasuresWithAnalyses ==
    Read("get_measures_with_analyses", <<>>, get_measures_with_analyses(svc[1]))

Next ==
    \/ Construct
    \/ GetAllPillars
    \/ GetPillar
    \/ GetAllPrinciples
    \/ GetPrinciple
    \/ GetPrinciplesByPillar
    \/ GetAllMeasures
    \/ GetMeasure
    \/ GetMeasuresByPillar
    \/ GetMeasuresByPrinciple
    \/ GetAnalysesForMeasure
    \/ GetAnalysis
    \/ SearchMeasures
    \/ SearchPrinciples
    \/ GetMeasuresWithAnalyses

Spec == Init /\ [][Next]_vars

(***************************************************************************)
(* get_waf_hierarchy_service(), lines 297-302, called by several callers.  *)
(* The interpreter may switch threads between the test of line 300, the    *)
(* constructor call and the store of line 301, and the read of line 302,   *)
(* so each is a step of its own.                                           *)
(***************************************************************************)
\* The files of the accessor's runs: all four present, or the pillars file
\* missing.
InitAccessor ==
    /\ \E e \in BOOLEAN :
         files = [pillars |-> File(e, FALSE, <<>>),
                  principles |-> File(TRUE, FALSE, <<>>),
                  measures |-> File(TRUE, FALSE, <<>>),
                  analysis |-> File(TRUE, FALSE, <<>>)]
    /\ pc = "start"
    /\ svc = <<>>
    /\ last = NoCall
    /\ AccessorIdle
    /\ AppIdle

\* Line 300: the call begins with the test of the global.
BeginCall(c) ==
    /\ cpc[c] = "idle"
    /\ calls[c] < MaxCalls
    /\ calls' = [calls EXCEPT ![c] = @ + 1]
    /\ cpc' = [cpc EXCEPT ![c] = IF IsUnset(instance) THEN "construct" ELSE "return"]
    /\ overlapped' = (overlapped \/ \E d \in Callers \ {c} : cpc[d] # "idle")
    /\ UNCHANGED <<instance, objects, loads, raised, created, returned, finished>>
    /\ UNCHANGED indexVars
    /\ UNCHANGED appVars

\* An accessor that stores the object before it is loaded: a load that
\* raises leaves the half-made object in the global.
ConstructCallStoresFirst(c) ==
    /\ cpc[c] = "construct"
    /\ loads' = loads + 1
    /\ objects' = objects + 1
    /\ instance' = objects + 1
    /\ created' = [created EXCEPT ![c] = objects + 1]
    /\ IF AllFilesExist(files)
       THEN /\ cpc' = [cpc EXCEPT ![c] = "return"]
            /\ UNCHANGED raised
       ELSE /\ raised' = raised + 1
            /\ cpc' = [cpc EXCEPT ![c] = "idle"]
    /\ UNCHANGED <<calls, returned, finished, overlapped>>
    /\ UNCHANGED indexVars
    /\ UNCHANGED appVars

\* Line 301, right-hand side: WAFHierarchyService() runs _load_waf_data,
\* which raises RuntimeError when a file is missing; the exception leaves
\* the accessor before the store.
ConstructCall(c) ==
    /\ cpc[c] = "construct"
    /\ loads' = loads + 1
    /\ IF AllFilesExist(files)
       THEN /\ objects' = objects + 1
            /\ created' = [created EXCEPT ![c] = objects + 1]
            /\ cpc' = [cpc EXCEPT ![c] = "assign"]
            /\ UNCHANGED raised
       ELSE /\ raised' = raised + 1
            /\ cpc' = [cpc EXCEPT ![c] = "idle"]
            /\ UNCHANGED <<objects, created>>
    /\ UNCHANGED <<instance, calls, returned, finished, overlapped>>
    /\ UNCHANGED indexVars
    /\ UNCHANGED appVars

\* Line 301: the store to the global.
Assign(c) ==
    /\ cpc[c] = "assign"
    /\ instance' = created[c]
    /\ cpc' = [cpc EXCEPT ![c] = "return"]
    /\ UNCHANGED <<objects, loads, raised, created, calls, returned, finished,
                   overlapped>>
    /\ UNCHANGED indexVars
    /\ UNCHANGED appVars

\* Line 302: the global is read again and returned.
Return(c) ==
    /\ cpc[c] = "return"
    /\ returned' = returned \cup {instance}
    /\ finished' = finished + 1
    /\ cpc' = [cpc EXCEPT ![c] = "idle"]
    /\ UNCHANGED <<instance, objects, loads, raised, created, calls, overlapped>>
    /\ UNCHANGED indexVars
    /\ UNCHANGED appVars

NextAccessor ==
    \E c \in Callers :
        \/ BeginCall(c)
        \/ ConstructCall(c)
        \/ Assign(c)
        \/ Return(c)

SpecAccessor == InitAccessor /\ [][NextAccessor]_vars

(***************************************************************************)
(* Properties.                                                             *)
(***************************************************************************)
Loaded == pc = "loaded"

InSeq(x, seq) == \E i \in 1..Len(seq) : seq[i] = x

Count(x, seq) == Cardinality({i \in 1..Len(seq) : seq[i] = x})

\* seq is strictly ascending under the key: sorted, and no key twice.
StrictlyAscending(keys) ==
    \A i, j \in 1..Len(keys) : i < j => StrLess(keys[i], keys[j])

\* seq is ascending under the key.
Ascending(keys) ==
    \A i, j \in 1..Len(keys) : i < j => ~StrLess(keys[j], keys[i])

\* term occurs in text when the case of letters is ignored.
ContainsIgnoreCase(term, text) ==
    \E i \in 0..(Len(text) - Len(term)) :
        \A j \in 1..Len(term) : UpperChar(term[j]) = UpperChar(text[i + j])

\* C1: when callers race on the first call of get_waf_hierarchy_service()
\* and the files are there, _load_waf_data runs at most once and all callers
\* are handed the same object.  The accessor has no guard, so this fails.
C1_RacingCallersLoadOnce ==
    AllFilesExist(files) => loads <= 1 /\ Cardinality(returned) <= 1

\* C2: in a series of calls of which no two overlap and whose load
\* succeeds, the load runs once, on the first call, and every call returns
\* the one object the global holds.
C2_SequentialCallsLoadOnce ==
    (~overlapped /\ AllFilesExist(files)) =>
        /\ loads <= 1
        /\ objects = loads
        /\ returned \subseteq {1}
        /\ (finished >= 1 => loads = 1 /\ instance = 1 /\ returned = {1})

C2_Witness ==
    /\ ~overlapped
    /\ AllFilesExist(files)
    /\ finished >= 2
    /\ \A c \in Callers : calls[c] >= 1
    /\ loads = 1

\* C3: every pillar the index holds is found by get_pillar under its id as
\* stored, lowercased and uppercased.  A pillar_id is stored as written but
\* looked up uppercased, so this fails for an id with a lowercase letter.
C3_GetPillarAnyCasing ==
    Loaded =>
        \A i \in 1..Len(svc[1].pillars) :
            LET P == svc[1].pillars[i].v
            IN  /\ get_pillar(svc[1], P.pillar_id) = <<P>>
                /\ get_pillar(svc[1], Lower(P.pillar_id)) = <<P>>
                /\ get_pillar(svc[1], Upper(P.pillar_id)) = <<P>>

\* C4: every principle, measure and analysis the index holds is found by
\* get_principle, get_measure, get_analysis under its id in any casing.
\* Only analysis ids are uppercased when stored, so this fails.
C4_GetByIdAnyCasing ==
    Loaded =>
        /\ \A i \in 1..Len(svc[1].principles) :
            LET E == svc[1].principles[i].v
            IN  \A id \in {E.principle_id, Lower(E.principle_id), Upper(E.principle_id)} :
                    get_principle(svc[1], id) = <<E>>
        /\ \A i \in 1..Len(svc[1].measures) :
            LET E == svc[1].measures[i].v
            IN  \A id \in {E.measure_id, Lower(E.measure_id), Upper(E.measure_id)} :
                    get_measure(svc[1], id) = <<E>>
        /\ \A i \in 1..Len(svc[1].analyses) :
            \A j \in 1..Len(svc[1].analyses[i].v) :
                LET E == svc[1].analyses[i].v[j]
                IN  \A id \in {E.analysis_id, Lower(E.analysis_id), Upper(E.analysis_id)} :
                        get_analysis(svc[1], id) = <<E>>

\* C5: every measure of get_all_measures occurs exactly once in
\* get_measures_by_principle of its principle_id and occurs in
\* get_measures_by_pillar of its pillar_id.  Fails when a row is repeated
\* and when a parent id has a lowercase letter.
C5_MeasureInParentLists ==
    Loaded =>
        LET all == get_all_measures(svc[1])
        IN  \A i \in 1..Len(all) :
                /\ Count(all[i], get_measures_by_principle(svc[1], all[i].principle_id)) = 1
                /\ InSeq(all[i], get_measures_by_pillar(svc[1], all[i].pillar_id))

\* C6: get_analysis of the id of every analysis held in a list of
\* self._analyses returns that analysis, field for field.  Fails when two
\* rows carry the same analysis id.
C6_GetAnalysisRoundTrip ==
    Loaded =>
        LET all == Concat(DictValues(svc[1].analyses))
        IN  \A i \in 1..Len(all) : get_analysis(svc[1], all[i].analysis_id) = <<all[i]>>

\* C7: get_measures_with_analyses returns every measure of get_all_measures
\* whose get_analyses_for_measure is not empty, ascending by measure_id.
\* Fails for a measure whose id has a lowercase letter.
C7_MeasuresWithAnalysesComplete ==
    Loaded =>
        LET all == get_all_measures(svc[1])
            res == get_measures_with_analyses(svc[1])
        IN  /\ \A i \in 1..Len(all) :
                   get_analyses_for_measure(svc[1], all[i].measure_id) # <<>>
                       => InSeq(all[i], res)
            /\ Ascending([i \in 1..Len(res) |-> res[i].measure_id])

\* C8: every measure get_measures_with_analyses returns is one of
\* get_all_measures and has a non-empty get_analyses_for_measure.
C8_MeasuresWithAnalysesSound ==
    Loaded =>
        LET res == get_measures_with_analyses(svc[1])
        IN  \A i \in 1..Len(res) :
                /\ InSeq(res[i], get_all_measures(svc[1]))
                /\ get_analyses_for_measure(svc[1], res[i].measure_id) # <<>>

C8_Witness ==
    /\ Loaded
    /\ last.op = "get_measures_with_analyses"
    /\ last.ret # <<>>
    /\ last.ret = get_measures_with_analyses(svc[1])

\* Search terms: "", "AB", "C", "b", "a ", "Ab", "z", "ba".
ClaimTerms ==
    { <<>>, <<65, 66>>, <<67>>, <<98>>, <<97, 32>>, <<65, 98>>, <<122>>, <<98, 97>> }

\* A measure has the term, case ignored, in one of its four searched fields.
TermInMeasure(term, m) ==
    \/ ContainsIgnoreCase(term, m.measure_id)
    \/ ContainsIgnoreCase(term, m.best_practice)
    \/ ContainsIgnoreCase(term, m.databricks_capabilities)
    \/ ContainsIgnoreCase(term, m.details)

\* C9: search_measures(term) returns exactly the held measures that have
\* the term, case ignored, in measure_id, best_practice,
\* databricks_capabilities or details, ascending by measure_id.
C9_SearchMeasuresExact ==
    Loaded =>
        \A term \in ClaimTerms :
            LET res == search_measures(svc[1], term)
                held == DictValues(svc[1].measures)
            IN  /\ \A i \in 1..Len(res) :
                       InSeq(res[i], held) /\ TermInMeasure(term, res[i])
                /\ \A i \in 1..Len(held) :
                       TermInMeasure(term, held[i]) => Count(held[i], res) = 1
                /\ StrictlyAscending([i \in 1..Len(res) |-> res[i].measure_id])

\* "AB" is found in best_practice "aB" of one measure and in no field of
\* the other.
C9_Witness ==
    /\ Loaded
    /\ last.op = "search_measures"
    /\ last.arg = <<65, 66>>
    /\ Len(last.ret) = 1
    /\ Len(svc[1].measures) = 2

\* C10: get_all_pillars, get_all_principles and get_all_measures are each
\* ascending by their own id, and no id occurs twice.
C10_ListsSortedNoDuplicates ==
    Loaded =>
        LET pillars == get_all_pillars(svc[1])
            principles == get_all_principles(svc[1])
            measures == get_all_measures(svc[1])
        IN  /\ StrictlyAscending([i \in 1..Len(pillars) |-> pillars[i].pillar_id])
            /\ StrictlyAscending([i \in 1..Len(principles) |-> principles[i].principle_id])
            /\ StrictlyAscending([i \in 1..Len(measures) |-> measures[i].measure_id])

\* Two measures were stored in descending order of id and are listed in
\* ascending order.
C10_Witness ==
    /\ Loaded
    /\ last.op = "get_all_measures"
    /\ Len(last.ret) = 2
    /\ last.ret[1] = svc[1].measures[2].v
    /\ last.ret[2] = svc[1].measures[1].v

\* The parent keys asked for: "a", "B", "x", "A", "b", " A".
ClaimKeys == QueryIds \cup { <<65>>, <<98>>, <<32, 65>> }

\* a and b are the same id when the case of letters is ignored.
SameIdIgnoreCase(a, b) == Upper(a) = Upper(b)

\* The rows of a file that the load does not skip for a blank own id.
KeptPrincipleRows ==
    SelectSeq(files.principles.rows, LAMBDA r : Strip(r.principle_id) # <<>>)

KeptMeasureRows ==
    SelectSeq(files.measures.rows, LAMBDA r : Strip(r.measure_id) # <<>>)

KeptAnalysisRows ==
    SelectSeq(files.analysis.rows,
              LAMBDA r : Strip(r.alaysis_id) # <<>> /\ Strip(r.measure_sql_code) # <<>>)

\* No kept row of the rows names the key, in any casing, in the column.
NoRowUnder(rows, key, Column(_)) ==
    \A i \in 1..Len(rows) : ~SameIdIgnoreCase(Strip(Column(rows[i])), key)

KeySet(d) == {d[i].k : i \in 1..Len(d)}

\* C12: after a load that succeeded every principle's pillar_id is the id
\* of a held pillar, every measure's principle_id and pillar_id are ids of
\* a held principle and pillar, and every analysis's measure_id is the id
\* of a held measure.  The load checks none of this.
C12_ReferentiallyClosed ==
    Loaded =>
        /\ \A i \in 1..Len(svc[1].principles) :
               svc[1].principles[i].v.pillar_id \in KeySet(svc[1].pillars)
        /\ \A i \in 1..Len(svc[1].measures) :
               /\ svc[1].measures[i].v.principle_id \in KeySet(svc[1].principles)
               /\ svc[1].measures[i].v.pillar_id \in KeySet(svc[1].pillars)
        /\ \A i \in 1..Len(svc[1].analyses) :
               \A j \in 1..Len(svc[1].analyses[i].v) :
                   svc[1].analyses[i].v[j].measure_id \in KeySet(svc[1].measures)

\* C13: the load fails when a file is missing, and it fails when a row
\* that is not skipped has a blank pillar_name (pillars) or a blank
\* pillar_id (principles, measures), so that no held entity has such a
\* field blank.  The load checks no field but the row's own id.
C13_LoadRejectsMissingAndBlank ==
    /\ (pc # "start" /\ ~AllFilesExist(files)) => pc = "failed"
    /\ Loaded =>
        /\ \A i \in 1..Len(svc[1].pillars) : svc[1].pillars[i].v.pillar_name # <<>>
        /\ \A i \in 1..Len(svc[1].principles) : svc[1].principles[i].v.pillar_id # <<>>
        /\ \A i \in 1..Len(svc[1].measures) : svc[1].measures[i].v.pillar_id # <<>>

(***************************************************************************)
(* A caller that changes a list a child-list operation handed out.  Lines  *)
(* 209, 223, 228 and 233 return the list object the dict holds when the    *)
(* key is there (the default [] is a new list on every call), so           *)
(* `returned.pop()` at the caller removes the last element of the list in  *)
(* the index.                                                              *)
(***************************************************************************)
\* The dict of the service a child-list operation reads.
ChildDictOf(op) ==
    CASE op = "get_principles_by_pillar" -> "principles_by_pillar"
      [] op = "get_measures_by_pillar" -> "measures_by_pillar"
      [] op = "get_measures_by_principle" -> "measures_by_principle"
      [] op = "get_analyses_for_measure" -> "analyses"
      [] OTHER -> "none"

\* list.pop()
Pop(list) == SubSeq(list, 1, Len(list) - 1)

CallerPops ==
    /\ pc = "loaded"
    /\ ChildDictOf(last.op) # "none"
    /\ LET field == ChildDictOf(last.op)
           key == Upper(last.arg)
       IN  /\ DictHas(svc[1][field], key)
           /\ DictGetOr(svc[1][field], key, <<>>) # <<>>
           /\ svc' = <<[svc[1] EXCEPT ![field] =
                          DictSet(@, key, Pop(DictGetOr(@, key, <<>>)))]>>
           /\ last' = [op |-> "pop", arg |-> last.arg,
                       ret |-> Pop(DictGetOr(svc[1][field], key, <<>>))]
    /\ UNCHANGED <<files, pc>>
    /\ UNCHANGED accessorVars
    /\ UNCHANGED appVars

NextCallers ==
    \/ Next
    \/ CallerPops

SpecCallers == Init /\ [][NextCallers]_vars

\* C14: whatever the callers did since the load, every read operation
\* returns what it returns on the service as the load left it.  A caller
\* that pops from a list it was handed changes the index.
C14_ReadsFixedAfterLoad ==
    Loaded =>
        LET now == svc[1]
            asLoaded == LoadWafData(files)
        IN  /\ get_all_pillars(now) = get_all_pillars(asLoaded)
            /\ get_all_principles(now) = get_all_principles(asLoaded)
            /\ get_all_measures(now) = get_all_measures(asLoaded)
            /\ get_measures_with_analyses(now) = get_measures_with_analyses(asLoaded)
            /\ \A key \in ClaimKeys :
                /\ get_pillar(now, key) = get_pillar(asLoaded, key)
                /\ get_principle(now, key) = get_principle(asLoaded, key)
                /\ get_measure(now, key) = get_measure(asLoaded, key)
                /\ get_analysis(now, key) = get_analysis(asLoaded, key)
                /\ get_principles_by_pillar(now, key) = get_principles_by_pillar(asLoaded, key)
                /\ get_measures_by_pillar(now, key) = get_measures_by_pillar(asLoaded, key)
                /\ get_measures_by_principle(now, key) = get_measures_by_principle(asLoaded, key)
                /\ get_analyses_for_measure(now, key) = get_analyses_for_measure(asLoaded, key)
            /\ \A term \in ClaimTerms :
                search_measures(now, term) = search_measures(asLoaded, term)

(***************************************************************************)
(* Text the tools and the SQL service return.  A text is a sequence of     *)
(* segments in the order an f-string lays them out: a literal of the       *)
(* source, an interpolated string (code points) or an interpolated number. *)
(* A call either returns a value or raises: exc is "" or the exception's   *)
(* type, and value is then str(e).                                         *)
(***************************************************************************)
Lit(text) == [lit |-> text]

Str(s) == [str |-> s]

Num(n) == [num |-> n]

\* A literal character that a string of this notation cannot hold: 96 is
\* the backquote.
Chr(c) == [chr |-> c]

Ok(value) == [exc |-> "", value |-> value]

Raise(type, message) == [exc |-> type, value |-> message]

\* sep.join(parts)
RECURSIVE Join(_, _)
Join(sep, parts) ==
    IF parts = <<>> THEN <<>>
    ELSE IF Len(parts) = 1 THEN parts[1]
    ELSE parts[1] \o <<Lit(sep)>> \o Join(sep, Tail(parts))

\* str.strip() of a text whose first and last segments are literals: the
\* newline segments at either end go.
RECURSIVE StripText(_)
StripText(text) ==
    IF text = <<>> THEN <<>>
    ELSE IF text[1] = Lit("\n") THEN StripText(Tail(text))
    ELSE IF text[Len(text)] = Lit("\n") THEN StripText(SubSeq(text, 1, Len(text) - 1))
    ELSE text

(***************************************************************************)
(* sql_service.py.  The warehouse answers a query in one of these ways;    *)
(* a row is a tuple of cells.                                              *)
(***************************************************************************)
MaxResultRows == 2

MaxQueries == 2

\* ("A", 1), (None, 2) and a row of one column.
ResultRows == { <<<<65>>, 1>>, <<<<>>, 2>>, <<<<66>>>> }

Failures == { "connect_failed", "auth_failed", "rejected" }

BackendOutcomes ==
    { [kind |-> k, rows |-> <<>>] : k \in Failures }
        \cup { [kind |-> "rows", rows |-> r] :
                 r \in UNION { [1..n -> ResultRows] : n \in 0..MaxResultRows } }

\* The message of the exception the databricks client raised.
BackendError(kind) == [backend_error |-> kind]

\* Query texts: the sql_code cells of AnalysisRows.
Queries == { <<113>>, <<114>> }

\* SQLService.__init__, lines 24-30.
SQLService(environment) ==
    IF environment.warehouse_id
    THEN Ok([warehouse_id |-> TRUE])
    ELSE Raise("ValueError",
               <<Lit("DATABRICKS_WAREHOUSE_ID environment variable is required")>>)

\* What is still held after the events of a call: acquisitions less releases.
StillOpen(events, acquire, release) ==
    Len(SelectSeq(events, LAMBDA e : e = acquire))
        - Len(SelectSeq(events, LAMBDA e : e = release))

\* execute_query with plain assignments in place of the `with` statements:
\* close() follows fetchall() only, so a rejected query skips it.
execute_query_no_release(self, query, outcome) ==
    IF outcome.kind \in { "connect_failed", "auth_failed" }
    THEN [exc |-> "Exception",
          value |-> <<Lit("Error querying Databricks Warehouse: "),
                      BackendError(outcome.kind)>>,
          queries |-> <<>>, events |-> <<>>]
    ELSE IF outcome.kind = "rejected"
    THEN [exc |-> "Exception",
          value |-> <<Lit("Error querying Databricks Warehouse: "),
                      BackendError(outcome.kind)>>,
          queries |-> <<query>>,
          events |-> <<"connect", "cursor", "execute">>]
    ELSE [exc |-> "", value |-> outcome.rows, queries |-> <<query>>,
          events |-> <<"connect", "cursor", "execute", "fetchall", "cursor.close",
                       "connection.close">>]

\* execute_query, lines 32-55.  sql.connect raises when the warehouse cannot
\* be reached or the credentials are refused, cursor.execute raises when the
\* query is rejected; each is wrapped in a plain Exception.  `queries` is
\* what cursor.execute was given.  Connection and cursor are acquired by
\* `with` statements (lines 46-52), whose exit closes them whether the
\* block ends by return or by exception; `events` lists the acquisitions
\* and releases of the call in order.
execute_query(self, query, outcome) ==
    IF outcome.kind \in { "connect_failed", "auth_failed" }
    THEN [exc |-> "Exception",
          value |-> <<Lit("Error querying Databricks Warehouse: "),
                      BackendError(outcome.kind)>>,
          queries |-> <<>>, events |-> <<>>]
    ELSE IF outcome.kind = "rejected"
    THEN [exc |-> "Exception",
          value |-> <<Lit("Error querying Databricks Warehouse: "),
                      BackendError(outcome.kind)>>,
          queries |-> <<query>>,
          events |-> <<"connect", "cursor", "execute", "cursor.close",
                       "connection.close">>]
    ELSE [exc |-> "", value |-> outcome.rows, queries |-> <<query>>,
          events |-> <<"connect", "cursor", "execute", "fetchall", "cursor.close",
                       "connection.close">>]

\* row[0] if row[0] else "Unknown"
CellOrUnknown(cell) == IF cell # <<>> THEN Str(cell) ELSE Lit("Unknown")

\* The loop of a two-column formatter: row[1] of a row with one column
\* raises IndexError.
FormatRows(title, results, unit) ==
    IF \E i \in 1..Len(results) : Len(results[i]) < 2
    THEN Raise("IndexError", <<Lit("tuple index out of range")>>)
    ELSE Ok(StripText(
            <<Lit(title), Lit("\n")>> \o
            Concat([i \in 1..Len(results) |->
                      <<CellOrUnknown(results[i][1]), Lit(": "),
                        Num(results[i][2]), Lit(unit), Lit("\n")>>])))

\* QueryFormatter.format_table_formats, lines 83-90.
format_table_formats(results) == FormatRows("Table formats:", results, " tables")

\* QueryFormatter.format_table_types_distribution, lines 93-100.
format_table_types_distribution(results) ==
    FormatRows("Table types distribution:", results, "%")

Formatters == { "format_table_formats", "format_table_types_distribution" }

\* formatter_func(results)
CallFormatter(formatter_func, results) ==
    IF formatter_func = "format_table_formats"
    THEN format_table_formats(results)
    ELSE format_table_types_distribution(results)

NoData == <<Lit("No data found for the specified query")>>

\* Without the try of line 68: whatever execute_query or the formatter
\* raises leaves the call.
execute_query_with_formatting_uncaught(self, args, outcome) ==
    LET results == execute_query(self, args[1], outcome)
    IN  IF results.exc # ""
        THEN [exc |-> results.exc, value |-> results.value,
              queries |-> results.queries, events |-> results.events, formatted |-> 0]
        ELSE IF results.value = <<>>
        THEN [exc |-> "", value |-> NoData, queries |-> results.queries, events |-> results.events,
              formatted |-> 0]
        ELSE LET text == CallFormatter(args[2], results.value)
             IN  [exc |-> text.exc, value |-> text.value,
                  queries |-> results.queries, events |-> results.events, formatted |-> 1]

\* Without the test of line 71: the formatter is given the empty result.
execute_query_with_formatting_always_formats(self, args, outcome) ==
    LET results == execute_query(self, args[1], outcome)
    IN  IF results.exc # ""
        THEN [exc |-> "", value |-> results.value,
              queries |-> results.queries, events |-> results.events, formatted |-> 0]
        ELSE [exc |-> "", value |-> CallFormatter(args[2], results.value).value,
              queries |-> results.queries, events |-> results.events, formatted |-> 1]

\* execute_query_with_formatting(self, query, formatter_func), lines 57-76,
\* called with the positional arguments args.  Both parameters are required:
\* a call with another number of arguments raises TypeError before the body
\* (and so before its try) is entered.  In the body every exception, of
\* execute_query or of the formatter, becomes the returned text str(e).
execute_query_with_formatting(self, args, outcome) ==
    IF Len(args) # 2
    THEN [exc |-> "TypeError",
          value |-> <<Lit("SQLService.execute_query_with_formatting() missing 1 required positional argument: 'formatter_func'")>>,
          queries |-> <<>>, events |-> <<>>, formatted |-> 0]
    ELSE LET results == execute_query(self, args[1], outcome)
         IN  IF results.exc # ""
             THEN [exc |-> "", value |-> results.value,
                   queries |-> results.queries, events |-> results.events, formatted |-> 0]
             ELSE IF results.value = <<>>
             THEN [exc |-> "", value |-> NoData, queries |-> results.queries, events |-> results.events,
                   formatted |-> 0]
             ELSE [exc |-> "",
                   value |-> CallFormatter(args[2], results.value).value,
                   queries |-> results.queries, events |-> results.events, formatted |-> 1]

\* The environments and the catalogue files of the SQL service's runs.
InitSql ==
    /\ files = [pillars |-> File(TRUE, FALSE, <<>>),
                principles |-> File(TRUE, FALSE, <<>>),
                measures |-> File(TRUE, FALSE, <<>>),
                analysis |-> File(TRUE, FALSE, <<>>)]
    /\ pc = "start"
    /\ svc = <<>>
    /\ last = NoCall
    /\ AccessorIdle
    /\ env \in { [warehouse_id |-> b] : b \in BOOLEAN }
    /\ appPc = "import"
    /\ waf_service = <<>>
    /\ sql_service = <<>>
    /\ tool = NoTool
    /\ executed = <<>>
    /\ formatted = 0
    /\ sqlcall = NoSqlCall
    /\ connections = 0
    /\ cursors = 0
    /\ CatalogIdle

\* get_sql_service(), lines 216-224: the first call constructs the service;
\* ValueError leaves the global unset.
GetSqlService ==
    /\ sql_service = <<>>
    /\ LET made == SQLService(env)
       IN  /\ sql_service' = IF made.exc = "" THEN <<made.value>> ELSE <<>>
           /\ sqlcall' = [NoSqlCall EXCEPT !.op = "get_sql_service",
                                           !.exc = made.exc,
                                           !.ret = IF made.exc = "" THEN <<>> ELSE made.value]
    /\ UNCHANGED <<env, appPc, waf_service, tool, executed, formatted>>
    /\ UNCHANGED <<connections, cursors>>
    /\ UNCHANGED catalogVars
    /\ UNCHANGED indexVars
    /\ UNCHANGED accessorVars

ExecuteQuery ==
    /\ sql_service # <<>>
    /\ Len(executed) < MaxQueries
    /\ \E query \in Queries, outcome \in BackendOutcomes :
         LET r == execute_query(sql_service[1], query, outcome)
         IN  /\ sqlcall' = [op |-> "execute_query", args |-> <<query>>,
                            exc |-> r.exc, ret |-> r.value, formatted |-> 0,
                            outcome |-> outcome]
             /\ executed' = executed \o r.queries
             /\ connections' = connections + StillOpen(r.events, "connect", "connection.close")
             /\ cursors' = cursors + StillOpen(r.events, "cursor", "cursor.close")
    /\ UNCHANGED <<env, appPc, waf_service, sql_service, tool, formatted>>
    /\ UNCHANGED catalogVars
    /\ UNCHANGED indexVars
    /\ UNCHANGED accessorVars

ExecuteQueryWithFormatting ==
    /\ sql_service # <<>>
    /\ Len(executed) < MaxQueries
    /\ \E query \in Queries, formatter_func \in Formatters, outcome \in BackendOutcomes :
         LET r == execute_query_with_formatting(sql_service[1],
                                                <<query, formatter_func>>, outcome)
         IN  /\ sqlcall' = [op |-> "execute_query_with_formatting",
                            args |-> <<query, formatter_func>>,
                            exc |-> r.exc, ret |-> r.value,
                            formatted |-> r.formatted, outcome |-> outcome]
             /\ executed' = executed \o r.queries
             /\ formatted' = formatted + r.formatted
             /\ connections' = connections + StillOpen(r.events, "connect", "connection.close")
             /\ cursors' = cursors + StillOpen(r.events, "cursor", "cursor.close")
    /\ UNCHANGED <<env, appPc, waf_service, sql_service, tool>>
    /\ UNCHANGED catalogVars
    /\ UNCHANGED indexVars
    /\ UNCHANGED accessorVars

\* The static methods of class QueryFormatter, lines 79-213.
QueryFormatterMethods ==
    { "format_table_formats", "format_table_types_distribution",
      "format_jobs_on_all_purpose_clusters", "format_sql_vs_all_purpose",
      "format_dbr_versions", "format_serverless_percentage",
      "format_sql_compute_costs", "format_cluster_utilization",
      "format_autoscaling_percentage", "format_auto_termination_analysis",
      "format_billing_table_access", "format_cluster_tagging_distribution",
      "format_popular_tags" }

\* QueryFormatter.format_default(rows, column_names), as test_services.py
\* lines 51 and 57 call it: the class has no such attribute, so the
\* attribute lookup raises before anything is formatted.
format_default(rows, column_names) ==
    IF "format_default" \notin QueryFormatterMethods
    THEN Raise("AttributeError",
               <<Lit("type object 'QueryFormatter' has no attribute 'format_default'")>>)
    ELSE Ok(<<>>)

\* test_query_formatter, test_services.py lines 43-59: the default
\* formatter applied to mock rows and two column names.
FormatDefault ==
    /\ \E rows \in UNION { [1..n -> ResultRows] : n \in 0..MaxResultRows } :
         LET r == format_default(rows, <<<<97>>, <<98>>>>)
         IN  sqlcall' = [op |-> "format_default", args |-> <<>>,
                         exc |-> r.exc, ret |-> r.value, formatted |-> 0,
                         outcome |-> [kind |-> "mock", rows |-> rows]]
    /\ UNCHANGED <<env, appPc, waf_service, sql_service, tool, executed, formatted>>
    /\ UNCHANGED <<connections, cursors>>
    /\ UNCHANGED catalogVars
    /\ UNCHANGED indexVars
    /\ UNCHANGED accessorVars

NextSql ==
    \/ GetSqlService
    \/ ExecuteQuery
    \/ ExecuteQueryWithFormatting
    \/ FormatDefault

SpecSql == InitSql /\ [][NextSql]_vars

(***************************************************************************)
(* query_repository.py.  The repository is a dict from query name to SQL   *)
(* text.  The SQL text __init__ stores under a built-in name is written    *)
(* Seeded(name); each of them is a non-empty string.                       *)
(***************************************************************************)
MaxCatalogSteps == 3

Seeded(query_name) == [seeded |-> query_name]

SqlText(text) == [text |-> text]

\* Lines 17-206: the names of the dict literal, in its order.
BuiltinKeys ==
    <<"CO-01-01-table-formats", "CO-01-01-managed-tables", "CO-01-02",
      "CO-01-03", "CO-01-04", "CO-01-06-serverless", "CO-01-06-sql",
      "CO-01-08", "CO-02-01", "CO-02-02", "CO-03-01", "CO-03-02-tagging",
      "CO-03-02-popular">>

\* QueryRepository.__init__, lines 15-206.
QueryRepository ==
    [i \in 1..Len(BuiltinKeys) |-> [k |-> BuiltinKeys[i], v |-> Seeded(BuiltinKeys[i])]]

\* self.queries[query_name]: KeyError for a name that is not there.
get_query_subscript(self, query_name) ==
    IF DictHas(self, query_name) THEN DictGet(self, query_name)
    ELSE [exc |-> "KeyError"]

\* get_query, lines 208-218: None for a name that is not there.
get_query(self, query_name) == DictGet(self, query_name)

\* self.queries.setdefault(query_name, query): a name that is there keeps
\* its text.
add_query_setdefault(self, query_name, query) ==
    IF DictHas(self, query_name) THEN self ELSE DictSet(self, query_name, query)

\* add_query, lines 220-228.
add_query(self, query_name, query) == DictSet(self, query_name, query)

\* The dict itself handed out: the caller's mapping is the repository's.
list_queries_no_copy(self) == [alias |-> TRUE, items |-> self, own |-> self]

\* list_queries, lines 230-237: dict.copy() is a new dict with the same
\* items.  `own` is the history of the returned mapping: the items it was
\* returned with, changed by its holder only.
list_queries(self) == [alias |-> FALSE, items |-> self, own |-> self]

\* del d[key]
DictDel(d, key) == SelectSeq(d, LAMBDA e : e.k # key)

\* The names the callers use: a built-in one, the same in lowercase, and a
\* new one.
CatalogKeys == { "CO-01-02", "co-01-02", "NEW" }

CatalogTexts == { SqlText("SELECT 1"), SqlText("SELECT 2") }

InitCatalog ==
    /\ files = [pillars |-> File(TRUE, FALSE, <<>>),
                principles |-> File(TRUE, FALSE, <<>>),
                measures |-> File(TRUE, FALSE, <<>>),
                analysis |-> File(TRUE, FALSE, <<>>)]
    /\ pc = "start"
    /\ svc = <<>>
    /\ last = NoCall
    /\ AccessorIdle
    /\ AppIdle

CatalogFrame ==
    /\ UNCHANGED <<env, appPc, waf_service, sql_service, tool, executed, formatted,
                   sqlcall, connections, cursors>>
    /\ UNCHANGED indexVars
    /\ UNCHANGED accessorVars

\* get_query_repository(), lines 243-248: the first call constructs.
GetQueryRepository ==
    /\ repo = <<>>
    /\ repo' = <<QueryRepository>>
    /\ catcall' = [op |-> "get_query_repository", key |-> "", ret |-> <<>>]
    /\ UNCHANGED <<view, puts, catsteps>>
    /\ CatalogFrame

GetQuery ==
    /\ repo # <<>>
    /\ \E query_name \in CatalogKeys :
         catcall' = [op |-> "get_query", key |-> query_name,
                     ret |-> get_query(repo[1], query_name)]
    /\ UNCHANGED <<repo, view, puts, catsteps>>
    /\ CatalogFrame

\* add_query; a mapping handed out earlier changes with the dict only when
\* it is the dict.
AddQuery ==
    /\ repo # <<>>
    /\ catsteps < MaxCatalogSteps
    /\ \E query_name \in CatalogKeys, query \in CatalogTexts :
         LET queries == add_query(repo[1], query_name, query)
         IN  /\ repo' = <<queries>>
             /\ view' = IF view # <<>> /\ view[1].alias
                        THEN <<[view[1] EXCEPT !.items = queries]>>
                        ELSE view
             /\ puts' = DictSet(puts, query_name, query)
             /\ catcall' = [op |-> "add_query", key |-> query_name, ret |-> <<>>]
    /\ catsteps' = catsteps + 1
    /\ CatalogFrame

ListQueries ==
    /\ repo # <<>>
    /\ view' = <<list_queries(repo[1])>>
    /\ catcall' = [op |-> "list_queries", key |-> "", ret |-> list_queries(repo[1]).items]
    /\ UNCHANGED <<repo, puts, catsteps>>
    /\ CatalogFrame

\* The holder of a returned mapping: returned[query_name] = query.
ViewSet ==
    /\ view # <<>>
    /\ catsteps < MaxCatalogSteps
    /\ \E query_name \in CatalogKeys, query \in CatalogTexts :
         /\ view' = <<[view[1] EXCEPT !.items = DictSet(@, query_name, query),
                                      !.own = DictSet(@, query_name, query)]>>
         /\ repo' = IF view[1].alias
                    THEN <<DictSet(view[1].items, query_name, query)>>
                    ELSE repo
         /\ catcall' = [op |-> "view_set", key |-> query_name, ret |-> <<>>]
    /\ catsteps' = catsteps + 1
    /\ UNCHANGED puts
    /\ CatalogFrame

\* The holder of a returned mapping: del returned[query_name].
ViewDelete ==
    /\ view # <<>>
    /\ catsteps < MaxCatalogSteps
    /\ \E query_name \in CatalogKeys \cup { "CO-01-03" } :
         /\ DictHas(view[1].items, query_name)
         /\ view' = <<[view[1] EXCEPT !.items = DictDel(@, query_name),
                                      !.own = DictDel(@, query_name)]>>
         /\ repo' = IF view[1].alias
                    THEN <<DictDel(view[1].items, query_name)>>
                    ELSE repo
         /\ catcall' = [op |-> "view_delete", key |-> query_name, ret |-> <<>>]
    /\ catsteps' = catsteps + 1
    /\ UNCHANGED puts
    /\ CatalogFrame

NextCatalog ==
    \/ GetQueryRepository
    \/ GetQuery
    \/ AddQuery
    \/ ListQueries
    \/ ViewSet
    \/ ViewDelete

SpecCatalog == InitCatalog /\ [][NextCatalog]_vars

(***************************************************************************)
(* app.py.  The module body initialises the services (lines 27-56): an     *)
(* exception of either accessor is caught and leaves the global None, and  *)
(* the module goes on to register the tools.  Each tool is a function of   *)
(* the two globals and its argument.                                       *)
(***************************************************************************)
\* An attribute of None.
AttributeError(name) ==
    Raise("AttributeError",
          <<Lit("'NoneType' object has no attribute '"), Lit(name), Lit("'")>>)

\* get_stats, waf_hierarchy_service.py lines 271-279.
get_stats(self) ==
    [total_pillars |-> Len(self.pillars),
     total_principles |-> Len(self.principles),
     total_measures |-> Len(self.measures),
     total_analyses |-> Len(Concat(DictValues(self.analyses)))]

\* Lines 116-118 and 304-306: one line per principle.
PrincipleLines(self, principles, indent) ==
    Concat([i \in 1..Len(principles) |->
              <<Lit(indent), Str(principles[i].principle_id), Lit("**: "),
                Str(principles[i].principle_description), Lit(" ("),
                Num(Len(get_measures_by_principle(self, principles[i].principle_id))),
                Lit(" measures)\n")>>])

\* get_waf_pillar, lines 87-122.
get_waf_pillar(waf, pillar_id) ==
    IF waf = <<>> THEN AttributeError("get_pillar")
    ELSE
    LET self == waf[1]
        pillar == get_pillar(self, pillar_id)
    IN  IF pillar = <<>>
        THEN LET all == get_all_pillars(self)
             IN  Ok(<<Lit("WAF pillar '"), Str(pillar_id),
                      Lit("' not found. Available pillar IDs: ")>> \o
                    Join(", ", [i \in 1..Len(all) |-> <<Str(all[i].pillar_id)>>]))
        ELSE LET principles == get_principles_by_pillar(self, pillar_id)
                 measures == get_measures_by_pillar(self, pillar_id)
             IN  Ok(<<Lit("# WAF Pillar: "), Str(pillar[1].pillar_id), Lit("\n\n"),
                      Lit("**Name:** "), Str(pillar[1].pillar_name), Lit("\n\n"),
                      Lit("**Description:** "), Str(pillar[1].pillar_description),
                      Lit("\n\n"),
                      Lit("**Principles:** "), Num(Len(principles)), Lit("\n"),
                      Lit("**Measures:** "), Num(Len(measures)), Lit("\n\n")>> \o
                    (IF principles # <<>>
                     THEN <<Lit("**Principles in this pillar:**\n")>> \o
                          PrincipleLines(self, principles, "- **")
                     ELSE <<>>) \o
                    <<Lit("\nUse **Get WAF Principle** to explore specific principles.")>>)

\* Lines 174-178: one line per analysis of a measure.
AnalysisLines(analyses) ==
    Concat([i \in 1..Len(analyses) |->
              <<Lit("- **"), Str(analyses[i].analysis_id), Lit("**")>> \o
              (IF analyses[i].sql_description # <<>>
               THEN <<Lit(": "), Str(analyses[i].sql_description)>>
               ELSE <<>>) \o
              <<Lit("\n")>>])

\* Lines 161-181: the block of one measure.
MeasureBlock(self, measure) ==
    LET analyses == get_analyses_for_measure(self, measure.measure_id)
    IN  <<Lit("### "), Str(measure.measure_id), Lit(": "),
          Str(measure.best_practice), Lit("\n\n")>> \o
        (IF measure.databricks_capabilities # <<>>
         THEN <<Lit("**Databricks Capabilities:** "),
                Str(measure.databricks_capabilities), Lit("\n\n")>>
         ELSE <<>>) \o
        <<Lit("**Details:** "), Str(measure.details), Lit("\n\n")>> \o
        (IF analyses # <<>>
         THEN <<Lit("**Available Analyses ("), Num(Len(analyses)), Lit("):**\n")>> \o
              AnalysisLines(analyses) \o <<Lit("\n")>>
         ELSE <<Lit("*No automated analyses available for this measure.*\n\n")>>)

\* get_waf_principle, lines 129-185.
get_waf_principle(waf, principle_id) ==
    IF waf = <<>> THEN AttributeError("get_principle")
    ELSE
    LET self == waf[1]
        principle == get_principle(self, principle_id)
    IN  IF principle = <<>>
        THEN Ok(<<Lit("WAF principle '"), Str(principle_id),
                  Lit("' not found. Use **List WAF Principles** to see all available principles.")>>)
        ELSE LET measures == get_measures_by_principle(self, principle_id)
             IN  Ok(<<Lit("# WAF Principle: "), Str(principle[1].principle_id),
                      Lit("\n\n"),
                      Lit("**Pillar:** "), Str(principle[1].pillar_name), Lit("\n"),
                      Lit("**Description:** "),
                      Str(principle[1].principle_description), Lit("\n\n"),
                      Lit("**Total Measures:** "), Num(Len(measures)), Lit("\n\n")>> \o
                    (IF measures # <<>>
                     THEN <<Lit("## \\U0001F4CB Measures\n\n")>> \o
                          Concat([i \in 1..Len(measures) |->
                                    MeasureBlock(self, measures[i])])
                     ELSE <<>>) \o
                    <<Lit("Use **Run WAF Analysis** to execute any specific analysis.")>>)

\* Lines 220: the message for an id that get_analysis does not find.
AnalysisNotFound(analysis_id) ==
    <<Lit("WAF analysis '"), Str(analysis_id),
      Lit("' not found. Use **Get WAF Principle** to see available analyses for measures.")>>

\* Lines 223-229: the head of the result.
AnalysisHeader(analysis) ==
    <<Lit("# Analysis "), Str(analysis.analysis_id), Lit("\n\n")>> \o
    (IF analysis.sql_description # <<>>
     THEN <<Lit("**What This Measures:** "), Str(analysis.sql_description),
            Lit("\n\n")>>
     ELSE <<>>) \o
    <<Lit("## Current Workspace Data\n\n")>>

\* run_waf_analysis, lines 192-248.  Line 233 calls
\* execute_query_with_formatting with the query alone; what that call raises
\* is caught at line 238.  No other statement of the outer try can raise.
run_waf_analysis(waf, sqlsvc, analysis_id, outcome) ==
    IF waf = <<>>
    THEN [exc |-> "", value |-> <<Lit("Error: WAF service failed to initialize.")>>,
          queries |-> <<>>, events |-> <<>>, formatted |-> 0]
    ELSE IF sqlsvc = <<>>
    THEN [exc |-> "", value |-> <<Lit("Error: SQL service failed to initialize.")>>,
          queries |-> <<>>, events |-> <<>>, formatted |-> 0]
    ELSE
    LET analysis == get_analysis(waf[1], analysis_id)
    IN  IF analysis = <<>>
        THEN [exc |-> "", value |-> AnalysisNotFound(analysis_id),
              queries |-> <<>>, events |-> <<>>, formatted |-> 0]
        ELSE LET query_result ==
                     execute_query_with_formatting(sqlsvc[1],
                                                   <<analysis[1].sql_code>>, outcome)
             IN  [exc |-> "",
                  value |-> AnalysisHeader(analysis[1]) \o
                            (IF query_result.exc = ""
                             THEN query_result.value
                             ELSE <<Lit("**Error executing analysis:** ")>> \o
                                  query_result.value \o <<Lit("\n")>>),
                  queries |-> query_result.queries, events |-> query_result.events,
                  formatted |-> query_result.formatted]

\* Line 273: the length a description is cut to in the overview.
DescPreviewLen == 150

\* Lines 267-275: the block of one pillar.
PillarBlock(self, pillar) ==
    LET principles == get_principles_by_pillar(self, pillar.pillar_id)
        measures == get_measures_by_pillar(self, pillar.pillar_id)
        desc_preview ==
            IF Len(pillar.pillar_description) > DescPreviewLen
            THEN <<Str(SubSeq(pillar.pillar_description, 1, DescPreviewLen)), Lit("...")>>
            ELSE <<Str(pillar.pillar_description)>>
    IN  <<Lit("**"), Str(pillar.pillar_id), Lit("** - "), Str(pillar.pillar_name),
          Lit("\n"), Lit("  ")>> \o desc_preview \o
        <<Lit("\n"), Lit("  *"), Num(Len(principles)), Lit(" principles, "),
          Num(Len(measures)), Lit(" measures*\n\n")>>

\* list_waf_pillars, lines 255-282.
list_waf_pillars(waf) ==
    IF waf = <<>> THEN AttributeError("get_all_pillars")
    ELSE
    LET self == waf[1]
        pillars == get_all_pillars(self)
        stats == get_stats(self)
    IN  Ok(<<Lit("**Databricks Well-Architected Framework Pillars:**\n\n")>> \o
           Concat([i \in 1..Len(pillars) |-> PillarBlock(self, pillars[i])]) \o
           <<Lit("**Total:** "), Num(stats.total_pillars), Lit(" pillars, "),
             Num(stats.total_principles), Lit(" principles, "),
             Num(stats.total_measures), Lit(" measures\n\n"),
             Lit("Use **Get WAF Pillar** to explore any pillar in detail.")>>)

\* list_waf_principles, lines 289-311.
list_waf_principles(waf) ==
    IF waf = <<>> THEN AttributeError("get_all_pillars")
    ELSE
    LET self == waf[1]
        pillars == get_all_pillars(self)
    IN  Ok(<<Lit("**WAF Principles by Pillar:**\n\n")>> \o
           Concat([i \in 1..Len(pillars) |->
                     <<Lit("**"), Str(pillars[i].pillar_name), Lit(":**\n")>> \o
                     PrincipleLines(self,
                                    get_principles_by_pillar(self, pillars[i].pillar_id),
                                    "  - **") \o
                     <<Lit("\n")>>]) \o
           <<Lit("Use **Get WAF Principle** to explore any principle in detail.")>>)

\* Lines 333-337: the measures grouped under their pillar_id, in a dict.
RECURSIVE GroupByPillar(_, _)
GroupByPillar(measures, by_pillar) ==
    IF measures = <<>> THEN by_pillar
    ELSE LET measure == Head(measures)
         IN  GroupByPillar(Tail(measures),
                           DictSet(by_pillar, measure.pillar_id,
                                   Append(DictGetOr(by_pillar, measure.pillar_id, <<>>),
                                          measure)))

\* Lines 339-347, pillar_names: "CO", "DG", "RE", "SE", "PE", "OE", "IU".
pillar_names ==
    <<[k |-> <<67, 79>>, v |-> "Cost Optimization"],
      [k |-> <<68, 71>>, v |-> "Data & AI Governance"],
      [k |-> <<82, 69>>, v |-> "Reliability"],
      [k |-> <<83, 69>>, v |-> "Security"],
      [k |-> <<80, 69>>, v |-> "Performance Efficiency"],
      [k |-> <<79, 69>>, v |-> "Operational Excellence"],
      [k |-> <<73, 85>>, v |-> "Interoperability & Usability"]>>

\* Lines 353-358: one line per measure of a pillar's group.
MeasureLines(self, measures) ==
    Concat([i \in 1..Len(measures) |->
              <<Lit("  - **"), Str(measures[i].measure_id), Lit("**: "),
                Str(measures[i].best_practice), Lit("\n"),
                Lit("    Analyses: ")>> \o
              Join(", ",
                   LET analyses == get_analyses_for_measure(self, measures[i].measure_id)
                   IN  [j \in 1..Len(analyses) |->
                          <<Chr(96), Str(analyses[j].analysis_id), Chr(96)>>]) \o
              <<Lit("\n")>>])

\* list_waf_measures_with_analyses, lines 318-363.
list_waf_measures_with_analyses(waf) ==
    IF waf = <<>> THEN AttributeError("get_measures_with_analyses")
    ELSE
    LET self == waf[1]
        measures_with_analyses == get_measures_with_analyses(self)
    IN  IF measures_with_analyses = <<>>
        THEN Ok(<<Lit("No WAF measures found with automated analyses.")>>)
        ELSE LET by_pillar == GroupByPillar(measures_with_analyses, <<>>)
                 groups == Sorted(by_pillar, DictKeys(by_pillar))
             IN  Ok(<<Lit("**WAF Measures with Automated Analyses ("),
                      Num(Len(measures_with_analyses)), Lit(" found):**\n\n")>> \o
                    Concat([i \in 1..Len(groups) |->
                              <<Lit("**"),
                                IF DictHas(pillar_names, groups[i].k)
                                THEN Lit(DictGetOr(pillar_names, groups[i].k, ""))
                                ELSE Str(groups[i].k),
                                Lit(" ("), Str(groups[i].k), Lit("):**\n")>> \o
                              MeasureLines(self,
                                           Sorted(groups[i].v,
                                                  [j \in 1..Len(groups[i].v) |->
                                                     groups[i].v[j].measure_id])) \o
                              <<Lit("\n")>>]) \o
                    <<Lit("Use **Get WAF Principle** to see measure details, then **Run WAF Analysis** to execute specific analyses.")>>)

\* The files and the environment the module is imported in.
InitApp ==
    /\ DrawFiles
    /\ pc = "start"
    /\ svc = <<>>
    /\ last = NoCall
    /\ AccessorIdle
    /\ env \in { [warehouse_id |-> b] : b \in BOOLEAN }
    /\ appPc = "import"
    /\ waf_service = <<>>
    /\ sql_service = <<>>
    /\ tool = NoTool
    /\ executed = <<>>
    /\ formatted = 0
    /\ sqlcall = NoSqlCall
    /\ connections = 0
    /\ cursors = 0
    /\ CatalogIdle

\* Lines 27-56.  get_sql_service() raises when the warehouse id is not set,
\* get_query_repository() constructs the repository and cannot raise,
\* get_waf_hierarchy_service() raises when the load does; either way the
\* module body continues to line 58 and the tools are registered.
Startup ==
    /\ appPc = "import"
    /\ appPc' = "serving"
    /\ LET made == SQLService(env)
       IN  sql_service' = IF made.exc = "" THEN <<made.value>> ELSE <<>>
    /\ loads' = loads + 1
    /\ IF AllFilesExist(files)
       THEN /\ svc' = <<LoadWafData(files)>>
            /\ pc' = "loaded"
            /\ objects' = objects + 1
            /\ instance' = objects + 1
            /\ waf_service' = <<LoadWafData(files)>>
            /\ UNCHANGED raised
       ELSE /\ svc' = <<>>
            /\ pc' = "failed"
            /\ raised' = raised + 1
            /\ waf_service' = <<>>
            /\ UNCHANGED <<objects, instance>>
    /\ UNCHANGED <<files, last, cpc, created, calls, returned, finished, overlapped>>
    /\ repo' = <<QueryRepository>>
    /\ UNCHANGED <<view, catcall, puts, catsteps>>
    /\ UNCHANGED <<env, tool, executed, formatted, sqlcall, connections, cursors>>

\* A tool called by an MCP client once the module is imported.
Tool(op, arg, r, outcome) ==
    /\ appPc = "serving"
    /\ tool' = [op |-> op, arg |-> arg, exc |-> r.exc, ret |-> r.value,
                queries |-> r.queries, outcome |-> outcome]
    /\ executed' = executed \o r.queries
    /\ formatted' = formatted + r.formatted
    /\ connections' = connections + StillOpen(r.events, "connect", "connection.close")
    /\ cursors' = cursors + StillOpen(r.events, "cursor", "cursor.close")
    /\ UNCHANGED <<env, appPc, waf_service, sql_service, sqlcall>>
    /\ UNCHANGED catalogVars
    /\ UNCHANGED indexVars
    /\ UNCHANGED accessorVars

\* A tool that does not touch the SQL service.
IndexTool(op, arg, r) ==
    Tool(op, arg, [exc |-> r.exc, value |-> r.value, queries |-> <<>>, events |-> <<>>, formatted |-> 0],
         NoTool.outcome)

GetWafPillar ==
    \E id \in QueryIds : IndexTool("get_waf_pillar", id, get_waf_pillar(waf_service, id))

GetWafPrinciple ==
    \E id \in QueryIds :
        IndexTool("get_waf_principle", id, get_waf_principle(waf_service, id))

\* The answers of the warehouse to a query of a tool: no connection, the
\* query rejected, no row, one row.
ToolOutcomes ==
    { o \in BackendOutcomes :
        \/ o.kind \in { "connect_failed", "rejected" }
        \/ o.kind = "rows" /\ o.rows \in { <<>>, << <<<<65>>, 1>> >> } }

RunWafAnalysis ==
    /\ Len(executed) < MaxQueries
    /\ \E id \in QueryIds, outcome \in ToolOutcomes :
         Tool("run_waf_analysis", id,
              run_waf_analysis(waf_service, sql_service, id, outcome), outcome)

ListWafPillars == IndexTool("list_waf_pillars", <<>>, list_waf_pillars(waf_service))

ListWafPrinciples ==
    IndexTool("list_waf_principles", <<>>, list_waf_principles(waf_service))

ListWafMeasuresWithAnalyses ==
    IndexTool("list_waf_measures_with_analyses", <<>>,
              list_waf_measures_with_analyses(waf_service))

NextApp ==
    \/ Startup
    \/ GetWafPillar
    \/ GetWafPrinciple
    \/ RunWafAnalysis
    \/ ListWafPillars
    \/ ListWafPrinciples
    \/ ListWafMeasuresWithAnalyses

SpecApp == InitApp /\ [][NextApp]_vars

(***************************************************************************)
(* Properties of the tools and of the SQL service.                         *)
(***************************************************************************)
\* C15: no tool call is ever executed in a state where the load of the WAF
\* index failed at startup.
C15_NoToolAfterFailedLoad == tool.op # "none" => pc # "failed"

\* C16: every tool call returns a text and raises nothing, whatever the
\* outcome of the initialisation of the two services.
C16_ToolsNeverRaise == tool.exc = ""

\* C17: with both services initialised, run_waf_analysis of an id the index
\* holds has the analysis's query run exactly once, and returns the header
\* of the analysis followed by the executor's result (the no-data sentinel
\* when the warehouse answers with zero rows).
C17_RunAnalysisRunsQueryOnce ==
    (/\ tool.op = "run_waf_analysis"
     /\ waf_service # <<>>
     /\ sql_service # <<>>
     /\ get_analysis(waf_service[1], tool.arg) # <<>>)
        => LET analysis == get_analysis(waf_service[1], tool.arg)[1]
               header == AnalysisHeader(analysis)
           IN  /\ tool.exc = ""
               /\ tool.queries = <<analysis.sql_code>>
               /\ Len(tool.ret) >= Len(header)
               /\ SubSeq(tool.ret, 1, Len(header)) = header
               /\ (tool.outcome = [kind |-> "rows", rows |-> <<>>]
                       => tool.ret = header \o NoData)

\* C18: run_waf_analysis of an id that matches no analysis of the loaded
\* index returns a message that holds the id as it was given, raises
\* nothing and runs no query.
C18_UnknownAnalysisNotFound ==
    (/\ tool.op = "run_waf_analysis"
     /\ waf_service # <<>>
     /\ get_analysis(waf_service[1], tool.arg) = <<>>)
        => /\ tool.exc = ""
           /\ tool.queries = <<>>
           /\ \E i \in 1..Len(tool.ret) : tool.ret[i] = Str(tool.arg)

\* C19: when the warehouse cannot be reached, refuses the credentials or
\* rejects the query, execute_query_with_formatting raises nothing and
\* returns the text of the error.
C19_BackendFailureReturnedAsText ==
    (/\ sqlcall.op = "execute_query_with_formatting"
     /\ sqlcall.outcome.kind \in Failures)
        => /\ sqlcall.exc = ""
           /\ sqlcall.ret = <<Lit("Error querying Databricks Warehouse: "),
                              BackendError(sqlcall.outcome.kind)>>

C19_Witness ==
    /\ sqlcall.op = "execute_query_with_formatting"
    /\ sqlcall.outcome.kind = "rejected"
    /\ sqlcall.exc = ""
    /\ executed # <<>>
    /\ BackendError("rejected") = sqlcall.ret[Len(sqlcall.ret)]

\* C20: when the query gives zero rows, execute_query_with_formatting
\* returns "No data found for the specified query" and calls no formatter.
C20_NoRowsGivesSentinel ==
    (/\ sqlcall.op = "execute_query_with_formatting"
     /\ sqlcall.outcome = [kind |-> "rows", rows |-> <<>>])
        => /\ sqlcall.exc = ""
           /\ sqlcall.ret = <<Lit("No data found for the specified query")>>
           /\ sqlcall.formatted = 0

C20_Witness ==
    /\ sqlcall.op = "execute_query_with_formatting"
    /\ sqlcall.outcome = [kind |-> "rows", rows |-> <<>>]
    /\ sqlcall.ret = NoData
    /\ executed = <<sqlcall.args[1]>>
    /\ formatted = 0

\* C21: format_default of N rows raises nothing and returns a text that
\* ends with the line 'Total rows: N', N being the number of rows given.
C21_DefaultFormatterTotals ==
    sqlcall.op = "format_default"
        => /\ sqlcall.exc = ""
           /\ Len(sqlcall.ret) >= 2
           /\ sqlcall.ret[Len(sqlcall.ret) - 1] = Lit("Total rows: ")
           /\ sqlcall.ret[Len(sqlcall.ret)] = Num(Len(sqlcall.outcome.rows))

(***************************************************************************)
(* Properties of the query repository.                                     *)
(***************************************************************************)
AllCatalogKeys == CatalogKeys \cup { BuiltinKeys[i] : i \in 1..Len(BuiltinKeys) }

IsBuiltin(query_name) == \E i \in 1..Len(BuiltinKeys) : BuiltinKeys[i] = query_name

\* The text a name stands for after the add_query calls so far.
ExpectedQuery(query_name) ==
    IF DictHas(puts, query_name) THEN DictGet(puts, query_name)
    ELSE IF IsBuiltin(query_name) THEN <<Seeded(query_name)>>
    ELSE <<>>

\* C22: the repository is constructed with the 13 built-in names, each with
\* a non-empty text that get_query returns, and get_query of a name that is
\* neither built-in nor added returns None and raises nothing.
C22_SeededKeysAndAbsent ==
    repo # <<>> =>
        /\ Len(BuiltinKeys) = 13
        /\ puts = <<>> =>
               \A i \in 1..Len(BuiltinKeys) :
                   /\ get_query(repo[1], BuiltinKeys[i]) # <<>>
                   /\ get_query(repo[1], BuiltinKeys[i])[1] # SqlText("")
        /\ \A query_name \in AllCatalogKeys :
               (~IsBuiltin(query_name) /\ ~DictHas(puts, query_name))
                   => get_query(repo[1], query_name) = <<>>

C22_Witness ==
    /\ catcall.op = "get_query"
    /\ catcall.key = "co-01-02"
    /\ catcall.ret = <<>>
    /\ puts # <<>>
    /\ get_query(repo[1], "CO-01-02") # <<>>

\* C23: get_query of a name returns the text of the most recent add_query
\* for that name, or the built-in text when there was none; an add_query
\* changes the text of no other name.
C23_PutOverwritesOrInserts ==
    repo # <<>> =>
        \A query_name \in AllCatalogKeys :
            get_query(repo[1], query_name) = ExpectedQuery(query_name)

C23_Witness ==
    /\ catcall.op = "get_query"
    /\ catcall.key = "CO-01-02"
    /\ catcall.ret = <<SqlText("SELECT 2")>>
    /\ DictHas(puts, "NEW")
    /\ catsteps = MaxCatalogSteps

\* C24: a mapping list_queries returned holds what it was returned with and
\* what its holder did to it, whatever was added to the repository since;
\* and what the repository lists is what was added to it, whatever the
\* holder did to the mapping.
C24_ListIsDefensiveCopy ==
    /\ view # <<>> => view[1].items = view[1].own
    /\ repo # <<>> =>
           LET listed == list_queries(repo[1]).items
           IN  /\ \A i \in 1..Len(listed) : <<listed[i].v>> = ExpectedQuery(listed[i].k)
               /\ \A query_name \in AllCatalogKeys :
                      DictGet(listed, query_name) = ExpectedQuery(query_name)

C24_Witness ==
    /\ view # <<>>
    /\ DictHas(view[1].items, "NEW")
    /\ ~DictHas(repo[1], "NEW")
    /\ ~DictHas(view[1].items, "CO-01-03")
    /\ DictGet(repo[1], "CO-01-02") = <<SqlText("SELECT 1")>>
    /\ DictGet(view[1].items, "CO-01-02") = <<Seeded("CO-01-02")>>

(***************************************************************************)
(* Further properties of the index and of its accessor.                    *)
(***************************************************************************)
\* The lists of a reverse dict hold, under key K, the entities of the
\* primary dict whose foreign key is K, once each, as the primary dict
\* holds them.
ReverseAgrees(reverse, primary, Id(_), ForeignKey(_)) ==
    /\ \A i \in 1..Len(reverse) :
           \A j \in 1..Len(reverse[i].v) :
               LET entity == reverse[i].v[j]
               IN  /\ DictGet(primary, Id(entity)) = <<entity>>
                   /\ ForeignKey(entity) = reverse[i].k
                   /\ Count(entity, reverse[i].v) = 1
    /\ \A i \in 1..Len(primary) :
           Count(primary[i].v,
                 DictGetOr(reverse, ForeignKey(primary[i].v), <<>>)) = 1

\* C25: after the load, principles-by-pillar, measures-by-principle and
\* measures-by-pillar each agree with their primary dict, also when rows
\* repeat a primary key.
C25_ReverseIndexesAgree ==
    Loaded =>
        /\ ReverseAgrees(svc[1].principles_by_pillar, svc[1].principles,
                         LAMBDA e : e.principle_id, LAMBDA e : e.pillar_id)
        /\ ReverseAgrees(svc[1].measures_by_principle, svc[1].measures,
                         LAMBDA e : e.measure_id, LAMBDA e : e.principle_id)
        /\ ReverseAgrees(svc[1].measures_by_pillar, svc[1].measures,
                         LAMBDA e : e.measure_id, LAMBDA e : e.pillar_id)

\* The calls of get_waf_hierarchy_service() the callers 1..n have begun.
RECURSIVE CallsBegun(_)
CallsBegun(n) == IF n = 0 THEN 0 ELSE calls[n] + CallsBegun(n - 1)

\* C27: when the load raises, the global stays unset, the accessor hands
\* out no object, and every call runs the load again: each call begun has
\* raised out of the load or is about to run it.
C27_FailedLoadLeavesGlobalUnset ==
    ~AllFilesExist(files) =>
        /\ instance = 0
        /\ objects = 0
        /\ returned = {}
        /\ raised = loads
        /\ \A c \in Callers : cpc[c] \in { "idle", "construct" }
        /\ CallsBegun(NumCallers)
               = loads + Cardinality({ c \in Callers : cpc[c] = "construct" })

C27_Witness ==
    /\ ~AllFilesExist(files)
    /\ \E c \in Callers : calls[c] = 2 /\ cpc[c] = "idle"
    /\ raised >= 2
    /\ loads = raised
    /\ instance = 0

\* C26: whatever execute_query acquired it has released when it returns or
\* raises; after any sequence of calls no connection and no cursor is open.
C26_NoConnectionLeftOpen ==
    /\ connections = 0
    /\ cursors = 0

C26_Witness ==
    /\ sqlcall.op = "execute_query"
    /\ sqlcall.outcome.kind = "rejected"
    /\ sqlcall.exc = "Exception"
    /\ Len(executed) >= 2
    /\ connections = 0
    /\ cursors = 0

\* The stripped non-blank ids the rows of a file carry in column Id.
IdsOf(rows, Id(_)) == { Strip(Id(rows[i])) : i \in 1..Len(rows) } \ { <<>> }

\* The first and the last row of a file that carries `id`.
FirstRowWith(rows, id, Id(_)) ==
    rows[CHOOSE i \in 1..Len(rows) :
            /\ Strip(Id(rows[i])) = id
            /\ \A j \in 1..(i - 1) : Strip(Id(rows[j])) # id]

LastRowWith(rows, id, Id(_)) ==
    rows[CHOOSE i \in 1..Len(rows) :
            /\ Strip(Id(rows[i])) = id
            /\ \A j \in (i + 1)..Len(rows) : Strip(Id(rows[j])) # id]

\* C28: of the rows that repeat an id the pillar map holds the first, the
\* principle map and the measure map hold the last, and each map has
\* exactly one entry per distinct id.
C28_FirstPillarLastPrincipleMeasure ==
    Loaded =>
        LET PillarId(r) == r.pillar_id
            PrincipleId(r) == r.principle_id
            MeasureId(r) == r.measure_id
            pillar_ids == IdsOf(files.pillars.rows, PillarId)
            principle_ids == IdsOf(files.principles.rows, PrincipleId)
            measure_ids == IdsOf(files.measures.rows, MeasureId)
        IN  /\ Len(svc[1].pillars) = Cardinality(pillar_ids)
            /\ \A id \in pillar_ids :
                 LET row == FirstRowWith(files.pillars.rows, id, PillarId)
                 IN  DictGet(svc[1].pillars, id)
                         = <<WAFPillar(id, Strip(row.pillar_name),
                                       Strip(row.pillar_description))>>
            /\ Len(svc[1].principles) = Cardinality(principle_ids)
            /\ \A id \in principle_ids :
                 LET row == LastRowWith(files.principles.rows, id, PrincipleId)
                 IN  DictGet(svc[1].principles, id)
                         = <<WAFPrinciple(id, Strip(row.pillar_id),
                                          Strip(row.pillar_name),
                                          Strip(row.principle_description))>>
            /\ Len(svc[1].measures) = Cardinality(measure_ids)
            /\ \A id \in measure_ids :
                 LET row == LastRowWith(files.measures.rows, id, MeasureId)
                 IN  DictGet(svc[1].measures, id)
                         = <<WAFMeasure(Strip(row.pillar_id), Strip(row.principle_id),
                                        id, Strip(row.best_practice),
                                        Strip(row.measure_databricks_capabilities),
                                        Strip(row.measure_details))>>

\* Two pillar rows " A " and "A" with different names: the map holds the
\* name of the first.
C28_Witness ==
    /\ Loaded
    /\ Len(files.pillars.rows) = 2
    /\ Strip(files.pillars.rows[1].pillar_id) = Strip(files.pillars.rows[2].pillar_id)
    /\ files.pillars.rows[1].pillar_name # files.pillars.rows[2].pillar_name
    /\ Len(svc[1].pillars) = 1
    /\ svc[1].pillars[1].v.pillar_name = Strip(files.pillars.rows[1].pillar_name)

\* C29: the empty search term matches everything: search_measures("")
\* returns every loaded measure once and search_principles("") every loaded
\* principle once, each in ascending order of its own id.
C29_EmptyTermMatchesAll ==
    Loaded =>
        LET measures == search_measures(svc[1], <<>>)
            principles == search_principles(svc[1], <<>>)
            held_measures == DictValues(svc[1].measures)
            held_principles == DictValues(svc[1].principles)
        IN  /\ Len(measures) = Len(held_measures)
            /\ \A i \in 1..Len(held_measures) : Count(held_measures[i], measures) = 1
            /\ StrictlyAscending([i \in 1..Len(measures) |-> measures[i].measure_id])
            /\ Len(principles) = Len(held_principles)
            /\ \A i \in 1..Len(held_principles) :
                   Count(held_principles[i], principles) = 1
            /\ StrictlyAscending([i \in 1..Len(principles) |->
                                     principles[i].principle_id])
            /\ (last.op = "search_measures" /\ last.arg = <<>>)
                   => last.ret = measures
            /\ (last.op = "search_principles" /\ last.arg = <<>>)
                   => last.ret = principles

\* search_principles("") over two principles the map holds in descending
\* order of id.
C29_Witness ==
    /\ Loaded
    /\ last.op = "search_principles"
    /\ last.arg = <<>>
    /\ Len(last.ret) = 2
    /\ last.ret[1] = svc[1].principles[2].v
    /\ last.ret[2] = svc[1].principles[1].v

=============================================================================
